---- MODULE Spec2Model ----
(***************************************************************************)
(* The actor execution loop of the streaming framework                     *)
(* (rust/stream/src/executor/actor.rs): an Actor owns one StreamConsumer,  *)
(* polls it in a loop under a tracing span, refreshes the span at every    *)
(* barrier that does not carry Mutation::Stop, returns Ok(()) at a Stop    *)
(* barrier and returns the consumer's error at a failure.                  *)
(***************************************************************************)
EXTENDS Integers, Sequences, FiniteSets, TLC

\* ---------------------------------------------------------------- bounds
\* Longest scripted run of poll results of a consumer (one actor).
MaxLen == 3
\* Longest scripted run of poll results of a consumer (two actors).
MaxLenTwo == 2
\* Longest scripted run of poll results of a consumer (two runs compared).
MaxLenPair == 2
\* Longest scripted run of poll results of a consumer (fair scheduling).
MaxLenFair == 2
\* Most record batches a parquet file yields.
MaxBatches == 3
\* Most fields of a schema.
MaxFields == 2
\* Barriers carry an epoch in 1..MaxEpoch.
MaxEpoch == 2

\* The polls of an actor are recorded up to this many; it exceeds every
\* scripted run, so that a poll past the script is seen.
MaxObs == MaxLen + 2

\* ------------------------------------------------------- data of the code
\* `epoch = -1` of the first span: no barrier has been seen yet.
NoEpoch == -1

\* Option<T>: None is the empty sequence, Some(x) the one-element sequence.
None == <<>>
Some(x) == <<x>>
IsSome(o) == Len(o) = 1
Unwrap(o) == o[1]

\* The mutations a barrier carries; the loop tells Stop from the rest only.
Mutations == {"Nothing", "Stop", "Pause"}
Epochs == 1..MaxEpoch
Errors == {"disk error", "channel closed"}
ActorIds == {1, 2}

Barrier(e, m) == [epoch |-> e, mutation |-> m]
Barriers == {Barrier(e, m) : e \in Epochs, m \in Mutations}

\* The value of `self.consumer.next().await`: Result<Option<Barrier>>.
OkSome(b) == [ok |-> TRUE, barrier |-> Some(b), err |-> None]
OkNone == [ok |-> TRUE, barrier |-> None, err |-> None]
Err(e) == [ok |-> FALSE, barrier |-> None, err |-> Some(e)]
PollResults == {OkSome(b) : b \in Barriers} \cup {OkNone} \cup {Err(e) : e \in Errors}

IsBarrier(m) == m.ok /\ IsSome(m.barrier)
IsStop(m) == IsBarrier(m) /\ Unwrap(m.barrier).mutation = "Stop"
IsNone(m) == m.ok /\ ~IsSome(m.barrier)
IsErr(m) == ~m.ok
IsTerminal(m) == IsStop(m) \/ IsErr(m)

\* format!("{:03}", id): the decimal digits of id, zero-padded to width 3.
RECURSIVE Digits(_)
Digits(n) == IF n < 10 THEN <<n>> ELSE Append(Digits(n \div 10), n % 10)
RECURSIVE PadLeft(_, _)
PadLeft(ds, w) == IF Len(ds) >= w THEN ds ELSE PadLeft(<<0>> \o ds, w)
SpanName(i) == <<"actor_poll_">> \o PadLeft(Digits(i), 3)

\* Mutant: every span is built like the first one, with epoch = -1.
TraceSpanNoEpoch(i, e) ==
    [name |-> "actor_poll", otel_name |-> SpanName(i), actor_id |-> i,
     next |-> "Outbound", epoch |-> NoEpoch]

\* tracing::trace_span!("actor_poll", otel.name, actor_id, next, epoch).
TraceSpan(i, e) ==
    [name |-> "actor_poll", otel_name |-> SpanName(i), actor_id |-> i,
     next |-> "Outbound", epoch |-> e]

\* The value `run` returns: Result<()>.
RunOk == [ok |-> TRUE, err |-> None]
RunErr(e) == [ok |-> FALSE, err |-> Some(e)]

\* warn!("Actor polling failed: {:?}", err): the event carries the message,
\* the error and the spans entered at the point of the call.
WarnEvent(e, ctx) ==
    [level |-> "WARN", message |-> "Actor polling failed", err |-> e, spans |-> ctx]

\* ------------------------------------------------------------------ state
VARIABLES
    id,        \* id[a]: self.id
    script,    \* script[a]: what the consumer of a returns, poll by poll
    tail,      \* tail[a]: what it does after the script: "pending" or "idle"
    pos,       \* pos[a]: how many polls the consumer has answered, counted
               \*         up to one past its script
    pc,        \* pc[a]: "created", "loop", "await", "match", "returned"
    span,      \* span[a]: the local `span` of run (None before run starts)
    message,   \* message[a]: the local `message` (None when not matching)
    result,    \* result[a]: the value run returned (None while it runs)
    entered,   \* entered[a]: the span the task of a is inside of, if any
    events,    \* events[a]: the warn! events the task of a has emitted
    polled,    \* polled[a]: the span each poll was instrumented with
    scan       \* the S3FileScanExecutor and its do_execute stream, if any

actorVars ==
    <<id, script, tail, pos, pc, span, message, result, entered, events, polled>>
vars == <<actorVars, scan>>

Actors == DOMAIN pc

Scripts(n) == UNION {[1..k -> PollResults] : k \in 0..n}

\* The results two actors run on: one of each kind of poll result.
PollResultsTwo ==
    {OkNone, OkSome(Barrier(1, "Nothing")), OkSome(Barrier(MaxEpoch, "Stop")),
     Err("disk error")}
ScriptsTwo(n) == UNION {[1..k -> PollResultsTwo] : k \in 0..n}

\* The three scenarios of the testable properties.
ScenarioA ==
    <<OkNone, OkSome(Barrier(1, "Nothing")), OkNone, OkSome(Barrier(2, "Stop"))>>
ScenarioB == <<OkSome(Barrier(1, "Nothing")), Err("disk error")>>
ScenarioC == <<OkSome(Barrier(5, "Stop"))>>
Scenarios == {ScenarioA, ScenarioB, ScenarioC}

\* After its script a consumer either never resolves again ("pending") or
\* returns Ok(None) at every poll ("idle").
Tails == {"pending", "idle"}

\* No S3FileScanExecutor has been constructed.
NoScan ==
    [pc |-> "absent", file_format |-> "Parquet", schema |-> <<>>, file |-> <<>>,
     debug |-> FALSE, arrow |-> None, built |-> FALSE, batches |-> <<>>,
     out |-> <<>>]

\* Actor::new(consumer, id) for every actor of `as`.
New(as, ids, scripts, tails) ==
    /\ id = ids
    /\ script = scripts
    /\ tail = tails
    /\ pos = [a \in as |-> 0]
    /\ pc = [a \in as |-> "created"]
    /\ span = [a \in as |-> None]
    /\ message = [a \in as |-> None]
    /\ result = [a \in as |-> None]
    /\ entered = [a \in as |-> None]
    /\ events = [a \in as |-> <<>>]
    /\ polled = [a \in as |-> <<>>]

Init ==
    \E i \in ActorIds, s \in Scripts(MaxLen) \cup Scenarios, t \in Tails :
        /\ New({1}, [a \in {1} |-> i], [a \in {1} |-> s], [a \in {1} |-> t])
        /\ scan = NoScan

InitFair ==
    \E i \in ActorIds, s \in Scripts(MaxLenFair), t \in Tails :
        /\ New({1}, [a \in {1} |-> i], [a \in {1} |-> s], [a \in {1} |-> t])
        /\ scan = NoScan

InitTwo ==
    \E s1 \in ScriptsTwo(MaxLenTwo), s2 \in ScriptsTwo(MaxLenTwo) :
        /\ New({1, 2}, [a \in {1, 2} |-> a], <<s1, s2>>, [a \in {1, 2} |-> "idle"])
        /\ scan = NoScan

\* Two poll results that differ at most in which mutation other than Stop
\* (no mutation included) their barrier carries.
SameButMutation(m, n) ==
    IF IsBarrier(m) /\ ~IsStop(m)
    THEN IsBarrier(n) /\ ~IsStop(n)
         /\ Unwrap(n.barrier).epoch = Unwrap(m.barrier).epoch
    ELSE n = m
Variants(s, n) ==
    {t \in Scripts(n) :
        Len(t) = Len(s) /\ \A k \in 1..Len(s) : SameButMutation(s[k], t[k])}

\* The same actor run twice, on poll results that differ at most in the
\* mutations other than Stop.
InitPair ==
    \E s1 \in Scripts(MaxLenPair) : \E s2 \in Variants(s1, MaxLenPair) :
        /\ New({1, 2}, [a \in {1, 2} |-> 1], <<s1, s2>>, [a \in {1, 2} |-> "idle"])
        /\ scan = NoScan

\* ----------------------------------------------------------- the consumer
\* Whether consumer.next() of a can resolve, and with what.
HasOutput(a) == pos[a] < Len(script[a]) \/ tail[a] = "idle"
Output(a) == IF pos[a] < Len(script[a]) THEN script[a][pos[a] + 1] ELSE OkNone

\* ---------------------------------------------------------------- actions
\* run, up to the loop: the first span, with epoch = -1.
Run(a) ==
    /\ pc[a] = "created"
    /\ span' = [span EXCEPT ![a] = Some(TraceSpan(id[a], NoEpoch))]
    /\ pc' = [pc EXCEPT ![a] = "loop"]
    /\ UNCHANGED <<scan, id, script, tail, pos, message, result, entered, events,
                   polled>>

\* Mutant: every poll is instrumented with the span built before the loop.
PollFirstSpan(a) ==
    /\ pc[a] = "loop"
    /\ entered' = [entered EXCEPT ![a] = Some(TraceSpan(id[a], NoEpoch))]
    /\ polled' = [polled EXCEPT ![a] =
                     IF Len(@) < MaxObs
                     THEN Append(@, TraceSpan(id[a], NoEpoch)) ELSE @]
    /\ pc' = [pc EXCEPT ![a] = "await"]
    /\ UNCHANGED <<scan, id, script, tail, pos, span, message, result, events>>

\* self.consumer.next().instrument(span.clone()): the poll is issued inside
\* a clone of the current span.
Poll(a) ==
    /\ pc[a] = "loop"
    /\ entered' = [entered EXCEPT ![a] = span[a]]
    /\ polled' = [polled EXCEPT ![a] =
                     IF Len(@) < MaxObs THEN Append(@, Unwrap(span[a])) ELSE @]
    /\ pc' = [pc EXCEPT ![a] = "await"]
    /\ UNCHANGED <<scan, id, script, tail, pos, span, message, result, events>>

\* Mutant: the consumer is asked twice and the first answer is dropped.
AwaitTwice(a) ==
    /\ pc[a] = "await"
    /\ pos[a] + 1 < Len(script[a]) \/ tail[a] = "idle"
    /\ message' = [message EXCEPT ![a] =
                      Some(IF pos[a] + 1 < Len(script[a])
                           THEN script[a][pos[a] + 2] ELSE OkNone)]
    /\ pos' = [pos EXCEPT ![a] =
                  IF @ + 1 <= Len(script[a]) THEN @ + 2
                  ELSE IF @ <= Len(script[a]) THEN @ + 1 ELSE @]
    /\ entered' = [entered EXCEPT ![a] = None]
    /\ pc' = [pc EXCEPT ![a] = "match"]
    /\ UNCHANGED <<scan, id, script, tail, span, result, events, polled>>

\* .await resolves: the consumer returns its next result into `message`, and
\* the instrumented future leaves the span.
Await(a) ==
    /\ pc[a] = "await"
    /\ HasOutput(a)
    /\ message' = [message EXCEPT ![a] = Some(Output(a))]
    /\ pos' = [pos EXCEPT ![a] = IF @ <= Len(script[a]) THEN @ + 1 ELSE @]
    /\ entered' = [entered EXCEPT ![a] = None]
    /\ pc' = [pc EXCEPT ![a] = "match"]
    /\ UNCHANGED <<scan, id, script, tail, span, result, events, polled>>

\* Mutant: Stop is not told from the other mutations; the barrier is taken
\* like any other and the loop goes on.
BreakIgnored(a) ==
    /\ span' = [span EXCEPT ![a] =
                   Some(TraceSpan(id[a], Unwrap(Unwrap(message[a]).barrier).epoch))]
    /\ pc' = [pc EXCEPT ![a] = "loop"]
    /\ UNCHANGED <<result, events>>

\* Mutant: the span is refreshed before the Stop check.
BreakRecordsEpoch(a) ==
    /\ span' = [span EXCEPT ![a] =
                   Some(TraceSpan(id[a], Unwrap(Unwrap(message[a]).barrier).epoch))]
    /\ result' = [result EXCEPT ![a] = Some(RunOk)]
    /\ pc' = [pc EXCEPT ![a] = "returned"]
    /\ UNCHANGED events

\* Ok(Some(barrier)) with Mutation::Stop: break, then Ok(()).
Break(a) ==
    /\ result' = [result EXCEPT ![a] = Some(RunOk)]
    /\ pc' = [pc EXCEPT ![a] = "returned"]
    /\ UNCHANGED <<span, events>>

\* Mutant: the span is not rebuilt at a barrier.
RefreshStale(a, b) ==
    /\ pc' = [pc EXCEPT ![a] = "loop"]
    /\ UNCHANGED <<span, result, events>>

\* Mutant: the span is held in one place shared by all actors.
RefreshShared(a, b) ==
    /\ span' = [x \in DOMAIN span |->
                   IF x = a \/ IsSome(span[x])
                   THEN Some(TraceSpan(id[a], b.epoch)) ELSE span[x]]
    /\ pc' = [pc EXCEPT ![a] = "loop"]
    /\ UNCHANGED <<result, events>>

\* Mutant: the fields of the new span are given in the wrong order.
RefreshSwapped(a, b) ==
    /\ span' = [span EXCEPT ![a] = Some(TraceSpan(b.epoch, id[a]))]
    /\ pc' = [pc EXCEPT ![a] = "loop"]
    /\ UNCHANGED <<result, events>>

\* Ok(Some(barrier)) otherwise: a new span with epoch = barrier.epoch.
Refresh(a, b) ==
    /\ span' = [span EXCEPT ![a] = Some(TraceSpan(id[a], b.epoch))]
    /\ pc' = [pc EXCEPT ![a] = "loop"]
    /\ UNCHANGED <<result, events>>

\* Mutant: the loop breaks at every barrier that carries a mutation.
MatchBarrierAnyMutation(a) ==
    /\ pc[a] = "match"
    /\ IsBarrier(Unwrap(message[a]))
    /\ LET barrier == Unwrap(Unwrap(message[a]).barrier)
       IN IF barrier.mutation # "Nothing" THEN Break(a) ELSE Refresh(a, barrier)
    /\ message' = [message EXCEPT ![a] = None]
    /\ UNCHANGED <<scan, id, script, tail, pos, entered, polled>>

MatchBarrier(a) ==
    /\ pc[a] = "match"
    /\ IsBarrier(Unwrap(message[a]))
    /\ LET barrier == Unwrap(Unwrap(message[a]).barrier)
       IN IF barrier.mutation = "Stop" THEN Break(a) ELSE Refresh(a, barrier)
    /\ message' = [message EXCEPT ![a] = None]
    /\ UNCHANGED <<scan, id, script, tail, pos, entered, polled>>

\* Mutant: Ok(None) is taken for the end of the stream.
MatchNoneBreak(a) ==
    /\ pc[a] = "match"
    /\ IsNone(Unwrap(message[a]))
    /\ result' = [result EXCEPT ![a] = Some(RunOk)]
    /\ pc' = [pc EXCEPT ![a] = "returned"]
    /\ message' = [message EXCEPT ![a] = None]
    /\ UNCHANGED <<scan, id, script, tail, pos, span, entered, events,
                   polled>>

\* Mutant: Ok(None) starts the span over, as if it were built in the loop.
MatchNoneResetsSpan(a) ==
    /\ pc[a] = "match"
    /\ IsNone(Unwrap(message[a]))
    /\ span' = [span EXCEPT ![a] = Some(TraceSpan(id[a], NoEpoch))]
    /\ pc' = [pc EXCEPT ![a] = "loop"]
    /\ message' = [message EXCEPT ![a] = None]
    /\ UNCHANGED <<scan, id, script, tail, pos, result, entered, events, polled>>

\* Ok(None): continue.
MatchNone(a) ==
    /\ pc[a] = "match"
    /\ IsNone(Unwrap(message[a]))
    /\ pc' = [pc EXCEPT ![a] = "loop"]
    /\ message' = [message EXCEPT ![a] = None]
    /\ UNCHANGED <<scan, id, script, tail, pos, span, result, entered, events,
                   polled>>

\* Mutant: the failure is logged and the consumer polled again.
MatchErrRetry(a) ==
    /\ pc[a] = "match"
    /\ IsErr(Unwrap(message[a]))
    /\ LET err == Unwrap(Unwrap(message[a]).err)
       IN events' = [events EXCEPT ![a] = Append(@, WarnEvent(err, entered[a]))]
    /\ pc' = [pc EXCEPT ![a] = "loop"]
    /\ message' = [message EXCEPT ![a] = None]
    /\ UNCHANGED <<scan, id, script, tail, pos, span, result, entered, polled>>

\* Mutant: the failure is logged and swallowed: break, then Ok(()).
MatchErrSwallowed(a) ==
    /\ pc[a] = "match"
    /\ IsErr(Unwrap(message[a]))
    /\ LET err == Unwrap(Unwrap(message[a]).err)
       IN events' = [events EXCEPT ![a] = Append(@, WarnEvent(err, entered[a]))]
    /\ result' = [result EXCEPT ![a] = Some(RunOk)]
    /\ pc' = [pc EXCEPT ![a] = "returned"]
    /\ message' = [message EXCEPT ![a] = None]
    /\ UNCHANGED <<scan, id, script, tail, pos, span, entered, polled>>

\* Err(err): warn!, then return Err(err).
MatchErr(a) ==
    /\ pc[a] = "match"
    /\ IsErr(Unwrap(message[a]))
    /\ LET err == Unwrap(Unwrap(message[a]).err)
       IN /\ events' = [events EXCEPT ![a] = Append(@, WarnEvent(err, entered[a]))]
          /\ result' = [result EXCEPT ![a] = Some(RunErr(err))]
    /\ pc' = [pc EXCEPT ![a] = "returned"]
    /\ message' = [message EXCEPT ![a] = None]
    /\ UNCHANGED <<scan, id, script, tail, pos, span, entered, polled>>

Step(a) ==
    \/ Run(a)
    \/ Poll(a)
    \/ Await(a)
    \/ MatchBarrier(a)
    \/ MatchNone(a)
    \/ MatchErr(a)

Next ==
    \/ \E a \in Actors : Run(a)
    \/ \E a \in Actors : Poll(a)
    \/ \E a \in Actors : Await(a)
    \/ \E a \in Actors : MatchBarrier(a)
    \/ \E a \in Actors : MatchNone(a)
    \/ \E a \in Actors : MatchErr(a)

\* One actor, any consumer.
Spec == Init /\ [][Next]_vars

\* Two actors with different identities, each around its own consumer.
SpecTwo == InitTwo /\ [][Next]_vars

\* One actor run twice, on poll results that differ in mutations other than
\* Stop only.
SpecPair == InitPair /\ [][Next]_vars

\* One actor whose task is scheduled fairly and whose consumer returns every
\* result it has.
SpecFair == InitFair /\ [][Next]_vars /\ \A a \in {1} : WF_vars(Step(a))

\* ------------------------------------------------- S3FileScanExecutor
\* enum FileFormat { Parquet }.
FileFormats == {"Parquet"}

\* A schema, by the names of its fields in order.
FieldNames == {"a", "b"}
Schemas == UNION {[1..k -> FieldNames] : k \in 0..MaxFields}

\* An item of the record batch stream: a record batch that converts into a
\* chunk ("ok"), one whose chunk has other data types than the executor's
\* schema ("bad_types"), one that does not convert ("convert_err"), or the
\* failure to read one ("read_err").
BatchKinds == {"ok", "bad_types", "convert_err", "read_err"}
RowSets == {"r1", "r2"}
RecordBatches == [data : RowSets, kind : BatchKinds]

\* IcebergArrowConvert.chunk_from_record_batch: the same rows as a DataChunk.
Chunk(data) == [rows |-> data, as |-> "DataChunk"]

\* What the stream yields: Ok(chunk) or Err(BatchError).
YieldOk(c) == [ok |-> TRUE, chunk |-> Some(c), err |-> None]
YieldErr(e) == [ok |-> FALSE, chunk |-> None, err |-> Some(e)]

\* The errors of the four `?`: what failed, and how it was wrapped.
CreateError == [of |-> "create_parquet_stream_builder", wrapped |-> "From"]
BuildError ==
    [of |-> "build", wrapped |-> "anyhow: fail to build arrow stream builder"]
ReadError == [of |-> "record_batch", wrapped |-> "BatchError::Parquet"]
ConvertError == [of |-> "chunk_from_record_batch", wrapped |-> "From"]

\* S3FileScanExecutor::new, for a file whose arrow schema is f; dbg tells
\* whether debug assertions are compiled in.
InitScan ==
    /\ New({}, <<>>, <<>>, <<>>)
    /\ \E ff \in FileFormats, sc \in Schemas, f \in Schemas, dbg \in BOOLEAN :
          scan = [pc |-> "start", file_format |-> ff, schema |-> sc, file |-> f,
                  debug |-> dbg, arrow |-> None, built |-> FALSE,
                  batches |-> <<>>, out |-> <<>>]

\* assert_eq!(self.file_format, FileFormat::Parquet).
AssertFormat ==
    /\ scan.pc = "start"
    /\ scan' = [scan EXCEPT !.pc = IF scan.file_format = "Parquet"
                                    THEN "create" ELSE "panicked"]
    /\ UNCHANGED actorVars

\* create_parquet_stream_builder(..).await?: the builder, which knows the
\* file's arrow schema, or the error, which ends the stream.
CreateBuilder ==
    /\ scan.pc = "create"
    /\ \/ scan' = [scan EXCEPT !.pc = "check_len", !.arrow = Some(scan.file)]
       \/ scan' = [scan EXCEPT !.pc = "done",
                                !.out = Append(@, YieldErr(CreateError))]
    /\ UNCHANGED actorVars

\* Mutant: the number of fields is not compared.
AssertLenSkipped ==
    /\ scan.pc = "check_len"
    /\ scan' = [scan EXCEPT !.pc = "check_names"]
    /\ UNCHANGED actorVars

\* assert_eq!(arrow_schema.fields.len(), self.schema.fields.len()).
AssertLen ==
    /\ scan.pc = "check_len"
    /\ scan' = [scan EXCEPT !.pc = IF Len(Unwrap(scan.arrow)) = Len(scan.schema)
                                    THEN "check_names" ELSE "panicked"]
    /\ UNCHANGED actorVars

\* for (field, arrow_field) in schema.fields.iter().zip(arrow_schema.fields):
\* assert_eq!(*field.name, *arrow_field.name()). zip stops at the shorter.
ZipLen(x, y) == IF Len(x) <= Len(y) THEN Len(x) ELSE Len(y)
AssertNames ==
    /\ scan.pc = "check_names"
    /\ LET arrow_schema == Unwrap(scan.arrow)
       IN scan' = [scan EXCEPT !.pc =
                      IF \A k \in 1..ZipLen(scan.schema, arrow_schema) :
                             scan.schema[k] = arrow_schema[k]
                      THEN "build" ELSE "panicked"]
    /\ UNCHANGED actorVars

\* with_projection, with_batch_size, build()?: the record batch stream, or
\* the error, which ends the stream.
Build ==
    /\ scan.pc = "build"
    /\ \/ scan' = [scan EXCEPT !.pc = "stream", !.built = TRUE]
       \/ scan' = [scan EXCEPT !.pc = "done",
                                !.out = Append(@, YieldErr(BuildError))]
    /\ UNCHANGED actorVars

\* What one item b of the record batch stream makes of the execution.
AfterBatch(b) ==
    CASE b.kind = "read_err" ->
           [scan EXCEPT !.pc = "done", !.batches = Append(@, b),
                        !.out = Append(@, YieldErr(ReadError))]
      [] b.kind = "convert_err" ->
           [scan EXCEPT !.pc = "done", !.batches = Append(@, b),
                        !.out = Append(@, YieldErr(ConvertError))]
      [] b.kind = "bad_types" /\ scan.debug ->
           [scan EXCEPT !.pc = "panicked", !.batches = Append(@, b)]
      [] OTHER ->
           [scan EXCEPT !.batches = Append(@, b),
                        !.out = Append(@, YieldOk(Chunk(b.data)))]

\* Mutant: a record batch that fails is reported and the loop goes on.
ForAwaitGoesOn(b) ==
    /\ scan.pc = "stream"
    /\ Len(scan.batches) < MaxBatches
    /\ scan' = [AfterBatch(b) EXCEPT !.pc = "stream"]
    /\ UNCHANGED actorVars

\* One turn of `for record_batch in record_batch_stream`: record_batch?,
\* chunk_from_record_batch(..)?, debug_assert_eq!(data types), yield chunk.
ForAwait(b) ==
    /\ scan.pc = "stream"
    /\ Len(scan.batches) < MaxBatches
    /\ scan' = AfterBatch(b)
    /\ UNCHANGED actorVars

\* The record batch stream is exhausted: the execution ends.
EndOfStream ==
    /\ scan.pc = "stream"
    /\ scan' = [scan EXCEPT !.pc = "done"]
    /\ UNCHANGED actorVars

NextScan ==
    \/ AssertFormat
    \/ CreateBuilder
    \/ AssertLen
    \/ AssertNames
    \/ Build
    \/ \E b \in RecordBatches : ForAwait(b)
    \/ EndOfStream

\* One execution of an S3FileScanExecutor.
SpecScan == InitScan /\ [][NextScan]_vars

\* ------------------------------------------------- reading a run's script
\* The position of the first Stop barrier or failure of s, 0 if it has none.
FirstTerminal(s) ==
    IF \E k \in 1..Len(s) : IsTerminal(s[k])
    THEN CHOOSE k \in 1..Len(s) :
             IsTerminal(s[k]) /\ \A j \in 1..(k - 1) : ~IsTerminal(s[j])
    ELSE 0

\* How many scripted results run has matched so far.
HandledLen(a) ==
    IF pos[a] > Len(script[a]) THEN Len(script[a])
    ELSE IF pc[a] = "match" THEN pos[a] - 1 ELSE pos[a]
Handled(a) == SubSeq(script[a], 1, HandledLen(a))

Started(a) == pc[a] # "created"
Returned(a) == pc[a] = "returned"
Tag(a) == Unwrap(span[a])

\* ------------------------------------------------------------------- C1
StopsAt(s, n) == n > 0 /\ n = FirstTerminal(s) /\ IsStop(s[n])

\* C1: when the poll results are non-terminal ones followed by a Stop
\* barrier at position n, run returns Ok(()), it has issued exactly n polls
\* (one after every non-terminal result, so the polls issued always track
\* the results returned), and it never issues a poll past the n-th.
C1_StopRun ==
    \A a \in Actors : \A n \in 1..Len(script[a]) :
        StopsAt(script[a], n) =>
            /\ Len(polled[a]) <= n
            /\ Len(polled[a]) = (IF pc[a] = "await" THEN pos[a] + 1 ELSE pos[a])
            /\ Returned(a) => result[a] = Some(RunOk) /\ Len(polled[a]) = n
            /\ Started(a) /\ ~Returned(a) => pos[a] < n \/ pc[a] = "match"

\* Scenario A has returned: 4 polls, Ok(()).
C1_Witness ==
    /\ script[1] = ScenarioA
    /\ Returned(1)
    /\ Len(polled[1]) = 4
    /\ result[1] = Some(RunOk)

\* ------------------------------------------------------------------- C2
FailsAt(s, k) == k > 0 /\ k = FirstTerminal(s) /\ IsErr(s[k])

\* C2: when the first failure is at position k with no Stop barrier before
\* it, run returns Err of that very error, it has issued exactly k polls,
\* and no poll follows the failure.
C2_FailRun ==
    \A a \in Actors : \A k \in 1..Len(script[a]) :
        FailsAt(script[a], k) =>
            /\ Len(polled[a]) <= k
            /\ pos[a] <= k
            /\ Returned(a) =>
                  /\ result[a] = Some(RunErr(Unwrap(script[a][k].err)))
                  /\ Len(polled[a]) = k
                  /\ pos[a] = k

\* Scenario B has returned: 2 polls, Err("disk error").
C2_Witness ==
    /\ script[1] = ScenarioB
    /\ Returned(1)
    /\ Len(polled[1]) = 2
    /\ result[1] = Some(RunErr("disk error"))

\* ------------------------------------------------------------------- C3
Max(S) == CHOOSE x \in S : \A y \in S : y <= x
EpochOf(m) == Unwrap(m.barrier).epoch

\* The barriers of s, in order.
BarrierAt(s) == {k \in 1..Len(s) : IsBarrier(s[k])}
NonStopAt(s) == {k \in 1..Len(s) : IsBarrier(s[k]) /\ ~IsStop(s[k])}

\* The barriers of s carry non-decreasing epochs.
NonDecreasing(s) ==
    \A j, k \in BarrierAt(s) : j <= k => EpochOf(s[j]) <= EpochOf(s[k])

\* The epoch of the last barrier of s, -1 if it has none.
LastEpoch(s) == IF BarrierAt(s) = {} THEN NoEpoch ELSE EpochOf(s[Max(BarrierAt(s))])
\* The epoch of the last barrier of s that does not carry Stop, -1 if none.
LastNonStopEpoch(s) ==
    IF NonStopAt(s) = {} THEN NoEpoch ELSE EpochOf(s[Max(NonStopAt(s))])

Local(a) ==
    <<id[a], pos[a], pc[a], span[a], message[a], result[a], entered[a],
      events[a], polled[a]>>

AllNone(s) == \A k \in 1..Len(s) : IsNone(s[k])

\* Matching an Ok(None) leaves the tag as it is and goes back to the loop.
NoneKeepsRunning ==
    \A a \in Actors :
        pc[a] = "match" /\ IsNone(Unwrap(message[a])) /\ Local(a)' # Local(a) =>
            /\ span'[a] = span[a]
            /\ pc'[a] = "loop"
            /\ result'[a] = None

\* However many Ok(None) in a row, run has not returned, its tag is the
\* first one, and at the head of the loop the next poll can be issued.
NoneOnlyRuns ==
    \A a \in Actors :
        /\ AllNone(script[a]) /\ Started(a) =>
              /\ ~Returned(a)
              /\ result[a] = None
              /\ span[a] = Some(TraceSpan(id[a], NoEpoch))
        /\ pc[a] = "loop" => ENABLED Poll(a)

\* C5: an Ok(None) never changes the tag (actor id, direction and epoch) and
\* never ends the loop: after any number of them in a row the actor is
\* still running under the same tag and issues another poll.
C5_NoneIsNoOp == []NoneOnlyRuns /\ [][NoneKeepsRunning]_vars

\* MaxLen scripted Ok(None) and then more from the idle consumer: every
\* recorded poll was issued under the first tag, and run is about to poll.
C5_Witness ==
    /\ Len(script[1]) = MaxLen
    /\ AllNone(script[1])
    /\ pos[1] = MaxLen + 1
    /\ Len(polled[1]) = MaxObs
    /\ \A k \in 1..MaxObs : polled[1][k] = TraceSpan(id[1], NoEpoch)
    /\ pc[1] = "loop"

\* ------------------------------------------------------------------- C6
\* The last result the consumer returned to a.
LastResult(a) ==
    IF pos[a] \in 1..Len(script[a]) THEN Some(script[a][pos[a]])
    ELSE IF pos[a] > Len(script[a]) THEN Some(OkNone) ELSE None

\* Once returned, run has one of the two results, decided by the last poll.
TwoOutcomes ==
    \A a \in Actors :
        /\ Returned(a) =>
              /\ IsSome(result[a]) /\ IsSome(LastResult(a))
              /\ Unwrap(result[a]).ok <=> IsStop(Unwrap(LastResult(a)))
              /\ ~Unwrap(result[a]).ok <=> IsErr(Unwrap(LastResult(a)))
              /\ ~(IsStop(Unwrap(LastResult(a))) /\ IsErr(Unwrap(LastResult(a))))
        /\ ~Returned(a) => result[a] = None

\* The loop is left only by matching a Stop barrier or a failure, every
\* other match goes back to the loop, and nothing happens after the return.
OnlyTwoExits ==
    \A a \in Actors :
        /\ Returned(a) => Local(a)' = Local(a)
        /\ ~Returned(a) /\ Returned(a)' =>
              pc[a] = "match" /\ IsTerminal(Unwrap(message[a]))
        /\ pc[a] = "match" /\ Local(a)' # Local(a) =>
              (Returned(a)' <=> IsTerminal(Unwrap(message[a])))
        /\ pc[a] = "match" /\ Local(a)' # Local(a) /\ ~Returned(a)' => pc'[a] = "loop"

\* C6: run finishes in exactly two, mutually exclusive ways decided by the
\* last poll result: Ok(()) iff it was a Stop barrier, Err iff it was a
\* failure; no other result leaves the loop, and once returned nothing more
\* happens (no transition, no poll).
C6_TwoExits == []TwoOutcomes /\ [][OnlyTwoExits]_vars

\* A run that went through an Ok(None) and a barrier without Stop and then
\* returned Err at a failure, while the idle consumer could still answer.
C6_Witness ==
    /\ Len(script[1]) = 3
    /\ IsNone(script[1][1])
    /\ IsBarrier(script[1][2]) /\ ~IsStop(script[1][2])
    /\ IsErr(script[1][3])
    /\ tail[1] = "idle"
    /\ Returned(1)
    /\ ~Unwrap(result[1]).ok

\* ------------------------------------------------------------------- C7
\* The event names the actor: a span it was emitted in carries the actor id.
NamesActor(ev, i) == \E k \in 1..Len(ev.spans) : ev.spans[k].actor_id = i

\* C7: a run that returns Err has emitted exactly one warning, about that
\* error and identifying the actor; a run that returns Ok(()) has emitted
\* none.
C7_WarningNamesActor ==
    \A a \in Actors :
        Returned(a) =>
            IF Unwrap(result[a]).ok THEN events[a] = <<>>
            ELSE /\ Len(events[a]) = 1
                 /\ events[a][1].level = "WARN"
                 /\ Some(events[a][1].err) = Unwrap(result[a]).err
                 /\ NamesActor(events[a][1], id[a])

\* What the code does hold: exactly one warning, about the error returned,
\* emitted outside every span; none on a run that returns Ok(()).
C7_OneWarning ==
    \A a \in Actors :
        /\ Returned(a) =>
              IF Unwrap(result[a]).ok THEN events[a] = <<>>
              ELSE /\ Len(events[a]) = 1
                   /\ events[a][1].level = "WARN"
                   /\ Some(events[a][1].err) = Unwrap(result[a]).err
                   /\ events[a][1].spans = None
        /\ ~Returned(a) => events[a] = <<>>

\* ------------------------------------------------------------------- C8
\* C8: if the consumer has a Stop barrier or a failure to return after
\* finitely many other results, run eventually returns; if it has none, run
\* never returns, and against a consumer that answers Ok(None) for ever it
\* keeps polling for ever.
C8_ReturnsIffTerminal ==
    \A a \in {1} :
        /\ FirstTerminal(script[a]) > 0 => <>Returned(a)
        /\ FirstTerminal(script[a]) = 0 => []~Returned(a)
        /\ FirstTerminal(script[a]) = 0 /\ tail[a] = "idle" =>
              []<>(pc[a] = "await") /\ []<>(pc[a] = "match")

\* A run that returned at a terminal result in the last place of a script of
\* MaxLenFair results.
C8_Witness ==
    /\ Len(script[1]) = MaxLenFair
    /\ FirstTerminal(script[1]) = MaxLenFair
    /\ Returned(1)
    /\ pos[1] = MaxLenFair

\* ------------------------------------------------------------------- C9
\* What run returns on the poll results s, how many polls it issues and the
\* tag it ends with, read off s alone.
ResultOn(s) ==
    LET n == FirstTerminal(s)
    IN IF IsStop(s[n]) THEN RunOk ELSE RunErr(Unwrap(s[n].err))
PollsOn(s) == FirstTerminal(s)
EpochOn(s) == LastNonStopEpoch(SubSeq(s, 1, FirstTerminal(s)))

\* A step changes what run holds of one actor at most.
OneActorPerStep ==
    \A a, b \in Actors : a # b => Local(a)' = Local(a) \/ Local(b)' = Local(b)

\* Each actor's tags are its own, and its outcome is that of its own script.
OwnOutcome ==
    \A a \in Actors :
        /\ Started(a) =>
              /\ Tag(a).actor_id = id[a]
              /\ Tag(a).epoch = LastNonStopEpoch(Handled(a))
        /\ \A k \in 1..Len(polled[a]) : polled[a][k].actor_id = id[a]
        /\ Returned(a) =>
              /\ FirstTerminal(script[a]) > 0
              /\ result[a] = Some(ResultOn(script[a]))
              /\ Len(polled[a]) = PollsOn(script[a])
              /\ Tag(a).epoch = EpochOn(script[a])

\* C9: two actors with different identities, each around its own consumer,
\* do not interfere under any interleaving: a step of one leaves the state,
\* tag and poll count of the other as they are, and each one's outcome is
\* the one its own poll results give.
C9_Independent == []OwnOutcome /\ [][OneActorPerStep]_vars

\* Both have returned, one Ok(()) after two polls and one Err after one.
C9_Witness ==
    /\ Actors = {1, 2}
    /\ id[1] # id[2]
    /\ Returned(1) /\ Returned(2)
    /\ result[1] = Some(RunOk) /\ Len(polled[1]) = 2 /\ Tag(1).epoch = 1
    /\ result[2] = Some(RunErr("disk error")) /\ Len(polled[2]) = 1
    /\ Tag(2).epoch = NoEpoch

\* ------------------------------------------------------------------ C10
\* The tag's epoch never goes down.
TagNeverDecreases ==
    \A a \in Actors :
        IsSome(span[a]) /\ IsSome(span'[a]) => Tag(a)'.epoch >= Tag(a).epoch

\* A barrier below the tag's epoch is not taken as a normal step: run does
\* not go back to the loop with it.
LowerEpochRejected ==
    \A a \in Actors :
        /\ pc[a] = "match"
        /\ IsBarrier(Unwrap(message[a]))
        /\ EpochOf(Unwrap(message[a])) < Tag(a).epoch
        /\ Local(a)' # Local(a)
        => pc'[a] # "loop"

\* C10 as stated: the tag's epoch never decreases over a run, and a barrier
\* with a lower epoch than the last one seen is not accepted as a normal
\* step.
C10_EpochsEnforced == [][TagNeverDecreases /\ LowerEpochRejected]_vars

\* Every barrier without Stop is taken as it comes, whatever its epoch.
AnyEpochAccepted ==
    \A a \in Actors :
        /\ pc[a] = "match"
        /\ IsBarrier(Unwrap(message[a])) /\ ~IsStop(Unwrap(message[a]))
        /\ Local(a)' # Local(a)
        => /\ pc'[a] = "loop"
           /\ Tag(a)'.epoch = EpochOf(Unwrap(message[a]))
           /\ result'[a] = None
           /\ events'[a] = events[a]

\* No result is taken from the consumer after a Stop barrier.
NothingAfterStop ==
    \A a \in Actors : \A n \in 1..Len(script[a]) :
        StopsAt(script[a], n) => pos[a] <= n

\* C10 amended: the tag's epoch never decreases provided the consumer
\* returns its barriers in non-decreasing epoch order; run does not check
\* that order: a barrier without Stop is accepted as a normal step whatever
\* its epoch, and the tag takes its epoch even when it is lower; no result
\* is polled after a Stop barrier.
C10_EpochsTrusted ==
    /\ []NothingAfterStop
    /\ [][AnyEpochAccepted]_vars
    /\ [][\A a \in Actors : NonDecreasing(script[a]) =>
              (IsSome(span[a]) /\ IsSome(span'[a]) =>
                  Tag(a)'.epoch >= Tag(a).epoch)]_vars

\* A barrier of epoch 1 was accepted after one of epoch 2: the polls were
\* issued under the tags -1, 2, 1.
C10_Witness ==
    /\ Len(polled[1]) = 3
    /\ polled[1][1].epoch = NoEpoch
    /\ polled[1][2].epoch = 2
    /\ polled[1][3].epoch = 1
    /\ Tag(1).epoch = 1
    /\ ~Returned(1)

\* ------------------------------------------------------------------ C11
\* C11: the loop reads a barrier's mutation only to tell Stop from the
\* rest: on two sequences of poll results that differ only in the mutations
\* other than Stop, run issues the same polls under the same tags (neither
\* run polls more often than the other did in all), holds the same tag after
\* the same number of results, and returns the same value.
C11_MutationOpaque ==
    \A a, b \in Actors :
        /\ \A k \in 1..Len(polled[a]) :
              k <= Len(polled[b]) => polled[a][k] = polled[b][k]
        /\ Returned(a) => Len(polled[b]) <= Len(polled[a])
        /\ Started(a) /\ Started(b) /\ pos[a] = pos[b] /\ pc[a] = pc[b] =>
              span[a] = span[b] /\ result[a] = result[b]
        /\ Returned(a) /\ Returned(b) =>
              /\ result[a] = result[b]
              /\ polled[a] = polled[b]
              /\ span[a] = span[b]
              /\ events[a] = events[b]

\* Both runs have returned Ok(()) after three polls, one through a barrier
\* without mutation and the other through a barrier with Pause.
C11_Witness ==
    /\ Actors = {1, 2}
    /\ id[1] = id[2]
    /\ Len(script[1]) = 2
    /\ script[1][1] = OkSome(Barrier(1, "Nothing"))
    /\ script[2][1] = OkSome(Barrier(1, "Pause"))
    /\ IsStop(script[1][2])
    /\ Returned(1) /\ Returned(2)
    /\ Len(polled[1]) = 2 /\ Len(polled[2]) = 2
    /\ result[1] = Some(RunOk) /\ result[2] = Some(RunOk)

\* ------------------------------------------------------------------ C12
\* The polls issued and not yet answered: 1 while run awaits, else 0.
\* (Counted while the consumer is in its script, where both counts are
\* exact.)
OnePollAtATime ==
    \A a \in Actors :
        /\ pos[a] <= Len(script[a]) =>
              Len(polled[a]) - pos[a] = (IF pc[a] = "await" THEN 1 ELSE 0)
        /\ IsSome(entered[a]) <=> pc[a] = "await"
        /\ IsSome(message[a]) <=> pc[a] = "match"
        /\ pc[a] = "match" /\ pos[a] <= Len(script[a]) =>
              message[a] = Some(script[a][pos[a]])
        /\ pc[a] = "match" /\ pos[a] > Len(script[a]) => message[a] = Some(OkNone)

\* A poll is issued only when the last result has been handled; an answer
\* takes the next result of the consumer, one at a time; handling a result
\* takes no other.
OneResultAtATime ==
    \A a \in Actors :
        /\ Len(polled'[a]) > Len(polled[a]) =>
              /\ pc[a] = "loop" /\ message[a] = None
              /\ Len(polled'[a]) = Len(polled[a]) + 1
              /\ pos'[a] = pos[a]
        /\ pos'[a] # pos[a] =>
              /\ pc[a] = "await" /\ pc'[a] = "match"
              /\ pos'[a] = pos[a] + 1
              /\ polled'[a] = polled[a]
        /\ pc[a] = "match" /\ pc'[a] # "match" =>
              /\ message'[a] = None
              /\ pos'[a] = pos[a] /\ polled'[a] = polled[a]

\* C12: within one actor at most one poll is outstanding, the next poll is
\* issued only after the result of the last one has been handled, and the
\* results are handled one at a time in the order the consumer returns
\* them, none skipped.
C12_Sequential == []OnePollAtATime /\ [][OneResultAtATime]_vars

\* The third of three results is being matched: three polls issued, three
\* answered, none outstanding.
C12_Witness ==
    /\ Len(script[1]) = 3
    /\ script[1][1] # script[1][2] /\ script[1][2] # script[1][3]
    /\ pc[1] = "match"
    /\ pos[1] = 3
    /\ Len(polled[1]) = 3
    /\ message[1] = Some(script[1][3])

\* ------------------------------------------------------------------ C13
\* A span of actor i: everything but the epoch is fixed by i.
IsSpanOf(sp, i) ==
    /\ sp.actor_id = i
    /\ sp.next = "Outbound"
    /\ sp.name = "actor_poll"
    /\ sp.otel_name = SpanName(i)

\* Every tag of a run, the current one and the one of every poll, is a span
\* of the actor's id.
TagsCarryId ==
    \A a \in Actors :
        /\ Started(a) => IsSpanOf(Tag(a), id[a])
        /\ \A k \in 1..Len(polled[a]) : IsSpanOf(polled[a][k], id[a])
        /\ \A k \in 1..Len(entered[a]) : IsSpanOf(entered[a][k], id[a])

\* The id never changes, and a tag changes in its epoch only.
IdFixed ==
    \A a \in Actors :
        /\ id'[a] = id[a]
        /\ IsSome(span[a]) =>
              /\ IsSome(span'[a])
              /\ [Tag(a)' EXCEPT !.epoch = Tag(a).epoch] = Tag(a)

\* C13: the id given to Actor::new never changes, and every tag of a run,
\* the first with epoch -1 and each one built at a barrier, carries that id
\* and next = "Outbound"; only the epoch differs between them.
C13_IdImmutable == []TagsCarryId /\ [][IdFixed]_vars

\* The actor of id 2 has polled under the first tag and under one built at
\* a barrier of epoch 1.
C13_Witness ==
    /\ id[1] = 2
    /\ Len(polled[1]) = 2
    /\ polled[1][1] = TraceSpan(2, NoEpoch)
    /\ polled[1][2] = TraceSpan(2, 1)
    /\ polled[1][2].otel_name = <<"actor_poll_", 0, 0, 2>>

\* ------------------------------------------------------------------ C14
\* The results returned before the k-th poll of a: the first k - 1 of the
\* script, and Ok(None) from the idle consumer after those.
Before(a, k) ==
    SubSeq(script[a], 1, IF k - 1 <= Len(script[a]) THEN k - 1 ELSE Len(script[a]))

\* C14: the tag of the k-th poll is the one the results of the polls
\* 1..k-1 give: the epoch of the last barrier without Stop among them, or -1
\* if there is none; the barrier that poll k returns shows in the tag of
\* poll k + 1 at the earliest.
C14_TagOfPoll ==
    \A a \in Actors : \A k \in 1..Len(polled[a]) :
        polled[a][k] = TraceSpan(id[a], LastNonStopEpoch(Before(a, k)))

\* Three polls on [barrier 2, Ok(None), barrier 1]: issued under the tags
\* -1, 2, 2; the third has returned its barrier and the tag is 2 still.
C14_Witness ==
    /\ Len(script[1]) = 3
    /\ IsBarrier(script[1][1]) /\ EpochOf(script[1][1]) = 2 /\ ~IsStop(script[1][1])
    /\ IsNone(script[1][2])
    /\ IsBarrier(script[1][3]) /\ EpochOf(script[1][3]) = 1
    /\ pc[1] = "match" /\ pos[1] = 3
    /\ Len(polled[1]) = 3
    /\ polled[1][1].epoch = NoEpoch /\ polled[1][2].epoch = 2 /\ polled[1][3].epoch = 2

\* ------------------------------------------------------------------ C15
\* The record batches that came as batches (not as a read failure) and
\* converted.
Converts(b) == b.kind \in {"ok", "bad_types"}

\* The debug assertion on the data types stopped the execution at the last
\* record batch.
TypesPanic ==
    /\ scan.pc = "panicked" /\ scan.built
    /\ scan.debug /\ scan.batches[Len(scan.batches)].kind = "bad_types"

AssertionsHold == scan.file_format = "Parquet" /\ scan.file = scan.schema

\* C16: do_execute yields a chunk only if its assertions hold: the format is
\* Parquet and the file's arrow schema has as many fields as the
\* executor's, with the same names in the same order; when one fails, the
\* execution aborts before the record batch stream is built, with nothing
\* yielded.
C16_AssertionsGuard ==
    /\ (\E i \in 1..Len(scan.out) : scan.out[i].ok) => AssertionsHold
    /\ scan.built \/ scan.pc \in {"build", "stream"} => AssertionsHold
    /\ IsSome(scan.arrow) /\ ~AssertionsHold
        /\ scan.pc \notin {"check_len", "check_names"} =>
            /\ scan.pc = "panicked"
            /\ ~scan.built
            /\ scan.out = <<>>
            /\ scan.batches = <<>>

\* The file has as many fields as the executor's schema and the second is
\* named otherwise: aborted, nothing built, nothing yielded.
C16_Witness ==
    /\ scan.schema = <<"a", "b">>
    /\ scan.file = <<"a", "a">>
    /\ scan.pc = "panicked"
    /\ ~scan.built
    /\ scan.out = <<>>

====
